---- MODULE Spec2Model ----
(***************************************************************************)
(* A model of src/main.cc, the node binding of the spellchecker: one      *)
(* Spellchecker object (the Controller) wrapping one                       *)
(* SpellcheckerImplementation (the engine), the JavaScript thread that     *)
(* calls its methods and runs the completion callbacks, and the thread     *)
(* pool that runs the Execute() step of the two AsyncWorker classes.       *)
(***************************************************************************)
EXTENDS Integers, Sequences, FiniteSets, TLC

(* ---- bounds ---- *)

\* Calls the JavaScript side makes on the Spellchecker in one run.
MaxCalls == 2
\* Threads of the pool behind AsyncQueueWorker.
PoolSize == 2

(* ---- JavaScript values: a kind and, where it has one, content ---- *)

Undefined == [t |-> "undefined", v |-> <<>>]
Fn == [t |-> "function", v |-> <<>>]
Num7 == [t |-> "number", v |-> <<7>>]
Str(s) == [t |-> "string", v |-> s]
Buf(bytes) == [t |-> "buffer", v |-> bytes]

\* Code units used by the inputs: NUL, space, '7', 'a', 'b'.
NUL == 0
SPACE == 32

\* Dictionary content buffers: BufA parses (one word, "b"), BufB does not.
BufA == Buf(<<98>>)
BufB == Buf(<<NUL>>)
\* The empty persistent handle.
Empty == Undefined

\* Texts handed to checkSpellingAsync and words handed to the word operations.
Texts == {<<>>, <<97, SPACE, 98>>}
Words == {<<98>>}
\* Language names: "a" names an installed dictionary, "b" does not.
LangKnown == <<97>>
LangUnknown == <<98>>
\* The words of the installed dictionary.
KnownWords == {<<97>>}

(* ---- conversions of the binding ---- *)

IsString(val) == val.t = "string"
IsFunction(val) == val.t = "function"
HasInstance(val) == val.t = "buffer"

RECURSIVE Decimal(_)
Decimal(n) == IF n < 10 THEN <<48 + n>> ELSE Append(Decimal(n \div 10), 48 + (n % 10))

\* *String::Utf8Value(value): the value converted to a string (ToString).
Utf8Value(val) ==
  CASE val.t = "string" -> val.v
    [] val.t = "number" -> Decimal(val.v[1])
    [] OTHER -> <<117, 110, 100, 101, 102, 105, 110, 101, 100>>

\* info[i]: the i-th argument (0-based in the source), undefined past the end.
InfoAt(info, i) == IF i + 1 <= Len(info) THEN info[i + 1] ELSE Undefined

\* std::vector<uint16_t> text(Length() + 1) filled by String::Write: the code
\* units followed by the terminating NUL.
WriteText(string) == Append(string.v, NUL)

\* uint32_t start = iter->start: the value taken to 32 bits, as its two
\* 16-bit halves (n modulo 2^32).
ToUint32(n) == (n % 65536) + 65536 * ((n \div 65536) % 65536)

(* ---- the engine (SpellcheckerImplementation) ---- *)

IsWordUnit(u) == u # NUL /\ u # SPACE

\* The misspelled ranges of the first len units of data, by ascending start:
\* a word is a maximal run of word units, misspelled when not in dict.
RECURSIVE ScanFrom(_, _, _, _)
ScanFrom(data, len, i, dict) ==
  IF i > len THEN <<>>
  ELSE IF ~IsWordUnit(data[i]) THEN ScanFrom(data, len, i + 1, dict)
  ELSE LET stops == {j \in i..len : ~IsWordUnit(data[j])}
           e == IF stops = {} THEN len + 1
                ELSE CHOOSE j \in stops : \A k \in stops : j <= k
           word == SubSeq(data, i, e - 1)
           rest == ScanFrom(data, len, e, dict)
       IN IF word \in dict THEN rest
          ELSE <<[start |-> i - 1, end |-> e - 1]>> \o rest

EngineCheckSpelling(dict, data, len) == ScanFrom(data, len, 1, dict)

EngineIsMisspelled(dict, word) == word \notin dict

\* Whether sequence a comes before sequence b (shorter first, then by units).
RECURSIVE SeqLess(_, _)
SeqLess(a, b) ==
  IF Len(a) # Len(b) THEN Len(a) < Len(b)
  ELSE IF a = <<>> THEN FALSE
  ELSE IF Head(a) # Head(b) THEN Head(a) < Head(b)
  ELSE SeqLess(Tail(a), Tail(b))

RECURSIVE SortedSeq(_)
SortedSeq(S) ==
  IF S = {} THEN <<>>
  ELSE LET m == CHOOSE x \in S : \A y \in S \ {x} : SeqLess(x, y)
       IN <<m>> \o SortedSeq(S \ {m})

\* The suggestions for a word, best first: the other words of the dictionary.
EngineGetCorrectionsForMisspelling(dict, word) == SortedSeq(dict \ {word})

\* SetDictionary(language): loads the named dictionary when it is installed.
EngineSetDictionary(dict, language) ==
  IF language = LangKnown THEN [ret |-> TRUE, dict |-> KnownWords]
  ELSE [ret |-> FALSE, dict |-> dict]

\* SetDictionaryToContents(data, length): loads the word of a parsable blob.
EngineSetDictionaryToContents(dict, data, length) ==
  IF length > 0 /\ \A i \in 1..length : data[i] # NUL
  THEN [ret |-> TRUE, dict |-> {SubSeq(data, 1, length)}]
  ELSE [ret |-> FALSE, dict |-> dict]

EngineAdd(dict, word) == dict \cup {word}
EngineRemove(dict, word) == dict \ {word}

\* What an engine call may return when it ran on a destroyed engine or
\* overlapped another engine call.
GarbageRanges == {<<>>, <<[start |-> 0, end |-> 1]>>}
GarbageCorrections == {<<>>, <<<<97>>>>}

(* ---- state ---- *)

VARIABLES
  referenced,  \* the JavaScript side still holds the Spellchecker object
  impl,        \* the engine behind Spellchecker::impl: "live" or "deleted"
  dictData,    \* Spellchecker::dictData: the pinned Buffer, or Empty
  dict,        \* engine: the words it accepts
  handed,      \* engine: the buffers whose memory it was given
  lastCall,    \* the latest method call of the JavaScript thread
  tasks,       \* the AsyncWorker objects alive, by the number of their call
  queue,       \* work queued on the pool, oldest first
  running,     \* workers whose Execute() is running on a pool thread
  done,        \* workers whose Execute() returned, awaiting the event loop
  calls,       \* the invocations of completion callbacks so far, in order
  crashed      \* "no", or why the process ended

vars == <<referenced, impl, dictData, dict, handed, lastCall, tasks, queue,
          running, done, calls, crashed>>

Ids == 1..MaxCalls

NoTasks == [i \in {} |-> 0]

Init ==
  /\ referenced = TRUE
  /\ impl = "live"
  /\ dictData = Empty
  /\ dict = {}
  /\ handed = {}
  /\ lastCall = [n |-> 0, op |-> "New", info |-> <<>>, outcome |-> "returned",
                 passed |-> <<>>, raced |-> FALSE]
  /\ tasks = NoTasks
  /\ queue = <<>>
  /\ running = {}
  /\ done = <<>>
  /\ calls = <<>>
  /\ crashed = "no"

\* The JavaScript thread is inside an engine call of a synchronous method.
MainInEngine == lastCall.outcome = "pending"

\* The JavaScript thread can start a method call on the Spellchecker.
CanCall ==
  /\ crashed = "no"
  /\ referenced
  /\ ~MainInEngine
  /\ lastCall.n < MaxCalls

Called(op, info, outcome) ==
  [n |-> lastCall.n + 1, op |-> op, info |-> info, outcome |-> outcome,
   passed |-> <<>>, raced |-> FALSE]

\* Workers flagged as having overlapped another access to the engine.
Flag(S) == [t \in DOMAIN tasks |-> IF t \in S THEN [tasks[t] EXCEPT !.raced = TRUE]
                                   ELSE tasks[t]]

\* Nan::ThrowError(msg) and return: nothing but the call's outcome changes.
Throw(op, info, msg) ==
  /\ lastCall' = Called(op, info, msg)
  /\ UNCHANGED <<referenced, impl, dictData, dict, handed, tasks, queue,
                 running, done, calls, crashed>>

\* A synchronous method reaches its engine call, passing it the string or
\* bytes `passed`: the JavaScript thread is in the engine until SyncReturn, and
\* every Execute() running now overlaps it.
EnterEngine(op, info, passed) ==
  /\ lastCall' = [Called(op, info, "pending") EXCEPT !.passed = passed,
                                                     !.raced = (running # {})]
  /\ tasks' = Flag(running)
  /\ UNCHANGED <<referenced, impl, dict, handed, queue, running, done, calls,
                 crashed>>

(* ---- the methods of Spellchecker, run by the JavaScript thread ---- *)

SetDictionaryArgs ==
  {<<>>, <<Str(LangKnown)>>, <<Str(LangUnknown)>>, <<Str(LangKnown), Num7>>,
   <<Str(LangKnown), BufA>>, <<Str(LangKnown), BufB>>}

\* SetDictionary as it would be if info[1] were stored in dictData before
\* it is tested for being a Buffer.
SetDictionaryPinsFirst(info) ==
  /\ CanCall
  /\ IF Len(info) < 1 THEN Throw("setDictionary", info, "Bad argument")
     ELSE IF Len(info) > 1 /\ ~HasInstance(InfoAt(info, 1))
       THEN /\ dictData' = InfoAt(info, 1)
            /\ lastCall' = Called("setDictionary", info,
                                  "SetDictionary 2nd argument must be a Buffer")
            /\ UNCHANGED <<referenced, impl, dict, handed, tasks, queue,
                           running, done, calls, crashed>>
     ELSE /\ dictData' = IF Len(info) > 1 THEN InfoAt(info, 1) ELSE dictData
          /\ EnterEngine("setDictionary", info,
                         IF Len(info) > 1 THEN InfoAt(info, 1).v
                         ELSE Utf8Value(InfoAt(info, 0)))

SetDictionary(info) ==
  /\ CanCall
  /\ IF Len(info) < 1 THEN Throw("setDictionary", info, "Bad argument")
     ELSE IF Len(info) > 1 /\ ~HasInstance(InfoAt(info, 1))
       THEN Throw("setDictionary", info,
                  "SetDictionary 2nd argument must be a Buffer")
     ELSE /\ dictData' = IF Len(info) > 1 THEN InfoAt(info, 1) ELSE dictData
          /\ EnterEngine("setDictionary", info,
                         IF Len(info) > 1 THEN InfoAt(info, 1).v
                         ELSE Utf8Value(InfoAt(info, 0)))

WordArgs == {<<>>, <<Num7>>} \cup {<<Str(w)>> : w \in Words}

IsMisspelled(info) ==
  /\ CanCall
  /\ IF Len(info) < 1 THEN Throw("isMisspelled", info, "Bad argument")
     ELSE /\ EnterEngine("isMisspelled", info, Utf8Value(InfoAt(info, 0)))
          /\ UNCHANGED dictData

Add(info) ==
  /\ CanCall
  /\ IF Len(info) < 1 THEN Throw("add", info, "Bad argument")
     ELSE /\ EnterEngine("add", info, Utf8Value(InfoAt(info, 0)))
          /\ UNCHANGED dictData

Remove(info) ==
  /\ CanCall
  /\ IF Len(info) < 1 THEN Throw("remove", info, "Bad argument")
     ELSE /\ EnterEngine("remove", info, Utf8Value(InfoAt(info, 0)))
          /\ UNCHANGED dictData

PathArgs == {<<>>, <<Str(<<100>>)>>}

\* The path handed to the engine is the outer variable, "."; the assignment
\* under info.Length() > 0 declares a new variable that goes out of scope.
GetAvailableDictionaries(info) ==
  /\ CanCall
  /\ LET path == <<46>>
     IN EnterEngine("getAvailableDictionaries", info, path)
  /\ UNCHANGED dictData

\* The engine call of the pending synchronous method takes effect and the
\* method returns; a call that overlapped an Execute() may also end the process.
SyncReturn ==
  /\ crashed = "no"
  /\ MainInEngine
  /\ \/ /\ lastCall.raced
        /\ crashed' = "undefined behaviour"
        /\ UNCHANGED <<referenced, impl, dictData, dict, handed, lastCall,
                       tasks, queue, running, done, calls>>
     \/ /\ LET op == lastCall.op
               has_contents == Len(lastCall.info) > 1
               set == IF has_contents
                      THEN EngineSetDictionaryToContents(
                             dict, lastCall.passed, Len(lastCall.passed))
                      ELSE EngineSetDictionary(dict, lastCall.passed)
               bool(b) == IF b THEN "true" ELSE "false"
           IN CASE op = "setDictionary" ->
                     /\ dict' = set.dict
                     /\ handed' = IF has_contents
                                  THEN handed \cup {InfoAt(lastCall.info, 1)}
                                  ELSE handed
                     /\ lastCall' = [lastCall EXCEPT !.outcome = bool(set.ret)]
                [] op = "isMisspelled" ->
                     /\ lastCall' = [lastCall EXCEPT !.outcome =
                          bool(EngineIsMisspelled(dict, lastCall.passed))]
                     /\ UNCHANGED <<dict, handed>>
                [] op = "add" ->
                     /\ dict' = EngineAdd(dict, lastCall.passed)
                     /\ lastCall' = [lastCall EXCEPT !.outcome = "returned"]
                     /\ UNCHANGED handed
                [] op = "remove" ->
                     /\ dict' = EngineRemove(dict, lastCall.passed)
                     /\ lastCall' = [lastCall EXCEPT !.outcome = "returned"]
                     /\ UNCHANGED handed
                [] OTHER ->
                     /\ lastCall' = [lastCall EXCEPT !.outcome = "returned"]
                     /\ UNCHANGED <<dict, handed>>
        /\ UNCHANGED <<referenced, impl, dictData, tasks, queue, running,
                       done, calls, crashed>>

(* ---- the asynchronous methods ---- *)

\* AsyncQueueWorker(worker): the worker joins the queue of the pool.
AsyncQueueWorker(worker) ==
  /\ tasks' = tasks @@ ((lastCall.n + 1) :> worker)
  /\ queue' = Append(queue, lastCall.n + 1)

CheckSpellingWorker(callback, text) ==
  [kind |-> "CheckSpelling", callback |-> callback, text |-> text,
   word |-> <<>>, misspelled_ranges |-> <<>>, corrections |-> <<>>,
   raced |-> FALSE]

GetCorrectionsForMisspellingWorker(callback, word) ==
  [kind |-> "GetCorrectionsForMisspelling", callback |-> callback,
   text |-> <<>>, word |-> word, misspelled_ranges |-> <<>>,
   corrections |-> <<>>, raced |-> FALSE]

CheckSpellingArgs ==
  {<<>>, <<Num7>>, <<Num7, Fn>>} \cup {<<Str(s)>> : s \in Texts}
    \cup {<<Str(s), Fn>> : s \in Texts}

\* CheckSpellingAsync as it would be if the non-string rejection raised the
\* error without returning: the call goes on to enqueue a worker.
CheckSpellingAsyncNoReturn(info) ==
  /\ CanCall
  /\ IF Len(info) < 1 THEN Throw("checkSpellingAsync", info, "Bad argument")
     ELSE IF Len(InfoAt(info, 0).v) = 0
       THEN /\ lastCall' = Called("checkSpellingAsync", info, "returned")
            /\ UNCHANGED <<referenced, impl, dictData, dict, handed, tasks,
                           queue, running, done, calls, crashed>>
     ELSE /\ AsyncQueueWorker(CheckSpellingWorker(InfoAt(info, 1),
                                                  WriteText(InfoAt(info, 0))))
          /\ lastCall' = Called("checkSpellingAsync", info,
                                IF IsString(InfoAt(info, 0)) THEN "returned"
                                ELSE "Bad argument")
          /\ UNCHANGED <<referenced, impl, dictData, dict, handed, running,
                         done, calls, crashed>>

CheckSpellingAsync(info) ==
  /\ CanCall
  /\ IF Len(info) < 1 THEN Throw("checkSpellingAsync", info, "Bad argument")
     ELSE IF ~IsString(InfoAt(info, 0))
       THEN Throw("checkSpellingAsync", info, "Bad argument")
     ELSE IF Len(InfoAt(info, 0).v) = 0
       THEN /\ lastCall' = Called("checkSpellingAsync", info, "returned")
            /\ UNCHANGED <<referenced, impl, dictData, dict, handed, tasks,
                           queue, running, done, calls, crashed>>
     ELSE /\ AsyncQueueWorker(CheckSpellingWorker(InfoAt(info, 1),
                                                  WriteText(InfoAt(info, 0))))
          /\ lastCall' = Called("checkSpellingAsync", info, "returned")
          /\ UNCHANGED <<referenced, impl, dictData, dict, handed, running,
                         done, calls, crashed>>

GetCorrectionsArgs ==
  {<<>>, <<Num7>>, <<Num7, Fn>>} \cup {<<Str(w)>> : w \in Words \cup {<<>>}}
    \cup {<<Str(w), Fn>> : w \in Words \cup {<<>>}}

\* GetCorrectionsForMisspellingAsync as it would be with the empty-input
\* return of CheckSpellingAsync.
GetCorrectionsWithFastPath(info) ==
  /\ CanCall
  /\ IF Len(info) < 1
     THEN Throw("getCorrectionsForMisspellingAsync", info, "Bad argument")
     ELSE IF Len(Utf8Value(InfoAt(info, 0))) = 0
       THEN /\ lastCall' = Called("getCorrectionsForMisspellingAsync", info,
                                  "returned")
            /\ UNCHANGED <<referenced, impl, dictData, dict, handed, tasks,
                           queue, running, done, calls, crashed>>
     ELSE /\ AsyncQueueWorker(GetCorrectionsForMisspellingWorker(
                                InfoAt(info, 1), Utf8Value(InfoAt(info, 0))))
          /\ lastCall' = Called("getCorrectionsForMisspellingAsync", info,
                                "returned")
          /\ UNCHANGED <<referenced, impl, dictData, dict, handed, running,
                         done, calls, crashed>>

GetCorrectionsForMisspellingAsync(info) ==
  /\ CanCall
  /\ IF Len(info) < 1
     THEN Throw("getCorrectionsForMisspellingAsync", info, "Bad argument")
     ELSE /\ AsyncQueueWorker(GetCorrectionsForMisspellingWorker(
                                InfoAt(info, 1), Utf8Value(InfoAt(info, 0))))
          /\ lastCall' = Called("getCorrectionsForMisspellingAsync", info,
                                "returned")
          /\ UNCHANGED <<referenced, impl, dictData, dict, handed, running,
                         done, calls, crashed>>

(* ---- the pool threads ---- *)

\* A free pool thread takes the oldest queued worker and enters its Execute().
\* The worker calls the engine through its raw impl pointer: the call overlaps
\* every Execute() already running and a synchronous call in progress, and it
\* runs on freed memory when the engine was deleted.
ExecuteBegin ==
  /\ crashed = "no"
  /\ queue # <<>>
  /\ Cardinality(running) < PoolSize
  /\ LET id == Head(queue)
         overlap == running # {} \/ MainInEngine \/ impl = "deleted"
     IN /\ queue' = Tail(queue)
        /\ running' = running \cup {id}
        /\ tasks' = IF overlap THEN Flag(running \cup {id}) ELSE tasks
        /\ lastCall' = IF MainInEngine THEN [lastCall EXCEPT !.raced = TRUE]
                       ELSE lastCall
  /\ UNCHANGED <<referenced, impl, dictData, dict, handed, done, calls, crashed>>

\* text.size(): the length handed to the engine with text.data().
ScanLength(w) == Len(w.text)

\* EngineResult as it would be if Execute() moved the text out of the worker.
EngineResultMovesText(w) ==
  IF w.kind = "CheckSpelling"
  THEN [w EXCEPT !.misspelled_ranges =
                   EngineCheckSpelling(dict, w.text, ScanLength(w)),
                 !.text = <<>>]
  ELSE [w EXCEPT !.corrections =
                   EngineGetCorrectionsForMisspelling(dict, w.word),
                 !.word = <<>>]

\* What the engine call of a worker returns when nothing interferes.
EngineResult(w) ==
  IF w.kind = "CheckSpelling"
  THEN [w EXCEPT !.misspelled_ranges =
                   EngineCheckSpelling(dict, w.text, ScanLength(w))]
  ELSE [w EXCEPT !.corrections =
                   EngineGetCorrectionsForMisspelling(dict, w.word)]

\* What it may return after a data race or a use after free.
GarbageResults(w) ==
  IF w.kind = "CheckSpelling"
  THEN {[w EXCEPT !.misspelled_ranges = g] : g \in GarbageRanges}
  ELSE {[w EXCEPT !.corrections = g] : g \in GarbageCorrections}

\* ExecuteEnd as it would be if the worker were handed to the event loop
\* while its Execute() is still running.
ExecuteEndStillRunning(id) ==
  /\ crashed = "no"
  /\ id \in running
  /\ \A i \in DOMAIN done : done[i] # id
  /\ done' = Append(done, id)
  /\ UNCHANGED <<referenced, impl, dictData, dict, handed, lastCall, tasks,
                 queue, running, calls, crashed>>

\* Execute() of a running worker returns, its result stored in the worker,
\* and the worker is handed to the event loop.
ExecuteEnd(id) ==
  /\ crashed = "no"
  /\ id \in running
  /\ \E w \in {EngineResult(tasks[id])} \cup
               (IF tasks[id].raced THEN GarbageResults(tasks[id]) ELSE {}) :
        tasks' = [tasks EXCEPT ![id] = w]
  /\ running' = running \ {id}
  /\ done' = Append(done, id)
  /\ UNCHANGED <<referenced, impl, dictData, dict, handed, lastCall, queue,
                 calls, crashed>>

\* The engine throws inside Execute(): nothing on the pool thread catches it,
\* so the process is terminated.
ExecuteThrow(id) ==
  /\ crashed = "no"
  /\ id \in running
  /\ crashed' = "uncaught exception"
  /\ UNCHANGED <<referenced, impl, dictData, dict, handed, lastCall, tasks,
                 queue, running, done, calls>>

\* Execute() that raced or ran on a deleted engine faults.
ExecuteFault(id) ==
  /\ crashed = "no"
  /\ id \in running
  /\ tasks[id].raced
  /\ crashed' = "undefined behaviour"
  /\ UNCHANGED <<referenced, impl, dictData, dict, handed, lastCall, tasks,
                 queue, running, done, calls>>

(* ---- the event loop: completion ---- *)

\* RangesToJS as it would be with every object stored at index 0: the array
\* holds only the last range.
RangesToJSAtIndexZero(ranges) ==
  IF ranges = <<>> THEN <<>>
  ELSE <<[start |-> ToUint32(ranges[Len(ranges)].start),
          end |-> ToUint32(ranges[Len(ranges)].end)]>>

\* CheckSpellingWorker::HandleOKCallback: the array of {start, end} objects.
RangesToJS(ranges) ==
  [i \in 1..Len(ranges) |->
     [start |-> ToUint32(ranges[i].start), end |-> ToUint32(ranges[i].end)]]

\* Nan::New<String>(data, size) on the bytes of one correction.
NewString(bytes) == [i \in 1..Len(bytes) |-> IF bytes[i] < 128 THEN bytes[i]
                                              ELSE 65533]

\* GetCorrectionsForMisspellingWorker::HandleOKCallback: the array of strings.
CorrectionsToJS(corrections) ==
  [i \in 1..Len(corrections) |-> NewString(corrections[i])]

HandleOKCallback(w) ==
  IF w.kind = "CheckSpelling"
  THEN [kind |-> w.kind, err |-> "null",
        payload |-> RangesToJS(w.misspelled_ranges)]
  ELSE [kind |-> w.kind, err |-> "null",
        payload |-> CorrectionsToJS(w.corrections)]

Without(id) == [t \in DOMAIN tasks \ {id} |-> tasks[t]]

\* The event loop completes the worker that finished first: HandleOKCallback
\* builds the arguments and calls the callback, then the worker is destroyed.
WorkComplete ==
  /\ crashed = "no"
  /\ ~MainInEngine
  /\ done # <<>>
  /\ IsFunction(tasks[Head(done)].callback)
  /\ LET id == Head(done)
         argv == HandleOKCallback(tasks[id])
     IN /\ calls' = Append(calls, [id |-> id, kind |-> argv.kind,
                                   err |-> argv.err, payload |-> argv.payload])
        /\ tasks' = Without(id)
        /\ done' = Tail(done)
  /\ UNCHANGED <<referenced, impl, dictData, dict, handed, lastCall, queue,
                 running, crashed>>

\* The same when the callback wraps a value that is no function (info[1] was
\* not given): the call reaches no completion function; it does nothing.
WorkCompleteNoFunction ==
  /\ crashed = "no"
  /\ ~MainInEngine
  /\ done # <<>>
  /\ ~IsFunction(tasks[Head(done)].callback)
  /\ tasks' = Without(Head(done))
  /\ done' = Tail(done)
  /\ UNCHANGED <<referenced, impl, dictData, dict, handed, lastCall, queue,
                 running, calls, crashed>>

\* ... or it ends the process.
WorkCompleteCrash ==
  /\ crashed = "no"
  /\ ~MainInEngine
  /\ done # <<>>
  /\ ~IsFunction(tasks[Head(done)].callback)
  /\ crashed' = "undefined behaviour"
  /\ UNCHANGED <<referenced, impl, dictData, dict, handed, lastCall, tasks,
                 queue, running, done, calls>>

(* ---- the lifetime of the Spellchecker object ---- *)

\* The JavaScript side drops its last reference to the object. The wrapper is
\* held weakly and no worker references it: it is now collectable.
DropReference ==
  /\ crashed = "no"
  /\ referenced
  /\ ~MainInEngine
  /\ referenced' = FALSE
  /\ UNCHANGED <<impl, dictData, dict, handed, lastCall, tasks, queue, running,
                 done, calls, crashed>>

\* The collector runs ~Spellchecker on the JavaScript thread: delete impl.
\* Every Execute() running now uses the engine while it is destroyed.
Destroy ==
  /\ crashed = "no"
  /\ ~referenced
  /\ impl = "live"
  /\ impl' = "deleted"
  /\ tasks' = Flag(running)
  /\ UNCHANGED <<referenced, dictData, dict, handed, lastCall, queue, running,
                 done, calls, crashed>>

(* ---- the specifications ---- *)

\* Every step but an engine exception.
NextNoThrow ==
  \/ \E info \in SetDictionaryArgs : SetDictionary(info)
  \/ \E info \in WordArgs : IsMisspelled(info)
  \/ \E info \in WordArgs : Add(info)
  \/ \E info \in WordArgs : Remove(info)
  \/ \E info \in PathArgs : GetAvailableDictionaries(info)
  \/ \E info \in CheckSpellingArgs : CheckSpellingAsync(info)
  \/ \E info \in GetCorrectionsArgs : GetCorrectionsForMisspellingAsync(info)
  \/ SyncReturn
  \/ ExecuteBegin
  \/ \E id \in Ids : ExecuteEnd(id)
  \/ \E id \in Ids : ExecuteFault(id)
  \/ WorkComplete
  \/ WorkCompleteNoFunction
  \/ WorkCompleteCrash
  \/ DropReference
  \/ Destroy

Next ==
  \/ NextNoThrow
  \/ \E id \in Ids : ExecuteThrow(id)

Spec == Init /\ [][Next]_vars

\* The pool threads and the event loop keep running: a queued worker is
\* taken, a running Execute() ends (one way or another), a finished worker is
\* completed, a synchronous engine call returns.
Fairness ==
  /\ WF_vars(ExecuteBegin)
  /\ \A id \in Ids : WF_vars(ExecuteEnd(id) \/ ExecuteThrow(id) \/ ExecuteFault(id))
  /\ WF_vars(WorkComplete \/ WorkCompleteNoFunction \/ WorkCompleteCrash)
  /\ WF_vars(SyncReturn)

FairSpec == Spec /\ Fairness

\* The same with an engine that never throws.
FairSpecNoThrow == Init /\ [][NextNoThrow]_vars /\ Fairness

(* ---- vocabulary of the properties ---- *)

\* Nothing is queued, running or awaiting completion, and the JavaScript
\* thread is in no engine call.
Quiescent == queue = <<>> /\ running = {} /\ done = <<>> /\ ~MainInEngine

\* No completion can happen any more: the process ended or nothing is pending.
Settled == crashed # "no" \/ Quiescent

\* The number of completion-callback invocations for the worker of call id.
Invocations(id) == Cardinality({i \in DOMAIN calls : calls[i].id = id})

\* The call threw at the call boundary.
Threw(c) ==
  c.outcome \in {"Bad argument", "SetDictionary 2nd argument must be a Buffer"}

AsyncOps == {"checkSpellingAsync", "getCorrectionsForMisspellingAsync"}
WordOps == {"isMisspelled", "add", "remove"}

\* A call of checkSpellingAsync with a string and a completion function.
WellFormedCheck(c) ==
  /\ c.op = "checkSpellingAsync"
  /\ Len(c.info) = 2
  /\ IsString(c.info[1])
  /\ IsFunction(c.info[2])

\* A call that misses a required argument or passes a value of the wrong kind.
Malformed(c) ==
  \/ /\ c.op \in AsyncOps \cup WordOps \cup {"setDictionary"}
     /\ (Len(c.info) < 1 \/ ~IsString(InfoAt(c.info, 0)))
  \/ /\ c.op \in AsyncOps
     /\ ~IsFunction(InfoAt(c.info, 1))
  \/ /\ c.op = "setDictionary"
     /\ Len(c.info) > 1
     /\ ~HasInstance(InfoAt(c.info, 1))
  \/ /\ c.op = "getAvailableDictionaries"
     /\ Len(c.info) > 0
     /\ ~IsString(InfoAt(c.info, 0))

(* ---- the properties ---- *)

\* C1: checkSpellingAsync with an empty text and a completion function
\* invokes that function with an empty sequence of ranges and enqueues no
\* task: the call creates no worker, and once nothing is pending the function
\* has been invoked with (null, []).
C1_EmptyTextCompletesEmpty ==
  (WellFormedCheck(lastCall) /\ lastCall.info[1].v = <<>>) =>
    /\ lastCall.n \notin DOMAIN tasks
    /\ Settled => \E i \in DOMAIN calls :
                    /\ calls[i].id = lastCall.n
                    /\ calls[i].err = "null"
                    /\ calls[i].payload = <<>>

\* C2: every enqueued worker eventually has its completion callback invoked
\* exactly once, with a null error and a payload or with an error and no
\* payload; never twice.
C2_EveryTaskCompletesOnce ==
  /\ \A id \in Ids : (id \in DOMAIN tasks) ~> (Invocations(id) = 1)
  /\ [](\A id \in Ids : Invocations(id) <= 1)
  /\ [](\A i \in DOMAIN calls : calls[i].err = "null" \/ calls[i].payload = <<>>)

\* C3: no two workers that reference the engine of the Spellchecker are
\* inside Execute() at the same time.
C3_OneTaskInExecute == Cardinality(running) <= 1

\* C4: the engine call of a synchronous method never overlaps the Execute()
\* of a worker that references the same engine.
C4_SyncExcludesExecute == ~(MainInEngine /\ running # {})

\* C5: while a worker is queued, executing or awaiting completion, the engine
\* its impl pointer refers to is live.
C5_EngineOutlivesTasks == (DOMAIN tasks # {}) => impl = "live"

\* C6: while the Spellchecker lives, every buffer the engine was handed by
\* setDictionary is still retained by it; dictData is all the object retains.
C6_HandedBuffersRetained == impl = "live" => \A b \in handed : b = dictData

\* C7: completion callbacks are invoked in the order the calls were submitted.
C7_CallbacksInSubmissionOrder ==
  \A i, j \in DOMAIN calls : i < j => calls[i].id < calls[j].id

\* C8: of two workers on the same engine, the one enqueued first has
\* finished its Execute() before the other one begins its own.
C8_ExecuteInSubmissionOrder ==
  \A a, b \in DOMAIN tasks :
    (a < b /\ (b \in running \/ \E i \in DOMAIN done : done[i] = b)) =>
      \E i \in DOMAIN done : done[i] = a

\* C9: each checkSpellingAsync call is completed exactly once and, with no
\* dictionary change since the call, its payload is what the engine gives for
\* the same text in the same dictionary state.
C9_ChecksCompleteWithEngineResult ==
  /\ \A id \in Ids : Invocations(id) <= 1
  /\ (WellFormedCheck(lastCall) /\ Settled) =>
       \E i \in DOMAIN calls :
         /\ calls[i].id = lastCall.n
         /\ calls[i].kind = "CheckSpelling"
         /\ calls[i].payload =
              RangesToJS(EngineCheckSpelling(dict, lastCall.info[1].v,
                                             Len(lastCall.info[1].v)))

\* C10: a malformed call (a required argument missing, the completion
\* function of an async method included, or an argument of the wrong kind)
\* throws at the call boundary and enqueues no worker.
C10_MalformedCallFailsAtBoundary ==
  Malformed(lastCall) => (Threw(lastCall) /\ lastCall.n \notin DOMAIN tasks)

\* C11: an engine fault inside Execute() is caught on the pool thread and
\* reported through the completion callback with a non-null error: it never
\* ends the process, so later workers are still executed and completed.
C11_EngineFaultIsCaptured == crashed # "uncaught exception"

\* C12: for a non-empty text T the engine is asked to scan exactly
\* length(T) code units: the worker created by the latest call hands the
\* engine the length of the string it was called with.
C12_ScansExactlyTheText ==
  (WellFormedCheck(lastCall) /\ lastCall.n \in DOMAIN tasks) =>
    ScanLength(tasks[lastCall.n]) = Len(lastCall.info[1].v)

\* The completion callback of worker id is invoked in this step.
Invoked(id) ==
  /\ Len(calls') = Len(calls) + 1
  /\ calls'[Len(calls')].id = id

\* C13: a completion callback is invoked only by the JavaScript thread (which
\* is then in no other call), and only for a worker whose Execute() has
\* returned: the worker is not running, it is the first awaiting completion,
\* and the event loop reads the result Execute() stored.
C13_CompletionAfterExecute ==
  [][\A id \in Ids : Invoked(id) =>
        /\ ~MainInEngine
        /\ id \notin running
        /\ done # <<>> /\ Head(done) = id
        /\ id \in DOMAIN tasks
        /\ calls' = Append(calls, [id |-> id] @@ HandleOKCallback(tasks[id]))
    ]_vars

\* A callback has been invoked while another worker is inside Execute().
C13_Witness == calls # <<>> /\ running # {}

\* A call of getCorrectionsForMisspellingAsync with a string and a function.
WellFormedCorrections(c) ==
  /\ c.op = "getCorrectionsForMisspellingAsync"
  /\ Len(c.info) = 2
  /\ IsString(c.info[1])
  /\ IsFunction(c.info[2])

\* C14: every well-formed getCorrectionsForMisspellingAsync(word, onComplete)
\* enqueues exactly one worker, carrying that word and that function, at the
\* tail of the queue, whatever the word, the empty word included.
C14_CorrectionsAlwaysEnqueue ==
  [][(lastCall'.n = lastCall.n + 1 /\ WellFormedCorrections(lastCall')) =>
        /\ lastCall'.n \notin DOMAIN tasks
        /\ DOMAIN tasks' = DOMAIN tasks \cup {lastCall'.n}
        /\ \A id \in DOMAIN tasks : tasks'[id] = tasks[id]
        /\ tasks'[lastCall'.n].kind = "GetCorrectionsForMisspelling"
        /\ tasks'[lastCall'.n].word = lastCall'.info[1].v
        /\ tasks'[lastCall'.n].callback = lastCall'.info[2]
        /\ queue' = Append(queue, lastCall'.n)
    ]_vars

\* The latest call asked for the corrections of the empty word and its
\* worker is queued.
C14_Witness ==
  /\ WellFormedCorrections(lastCall)
  /\ lastCall.info[1].v = <<>>
  /\ \E i \in DOMAIN queue : queue[i] = lastCall.n

Request(w) == <<w.kind, w.callback, w.text, w.word>>

\* What Execute() stores in a worker.
Stored(w) == <<w.misspelled_ranges, w.corrections>>

\* A step of a pool thread: a worker enters or leaves Execute().
ExecuteStep == running' # running

\* C16: the text or word of a worker is a copy made when the call is made
\* (the code units of the argument, the text followed by its terminator), no
\* later step changes it while the worker lives, and a step of Execute()
\* changes nothing but the result fields of its own worker: not the state of
\* the JavaScript side (the object's reference, dictData, the callbacks
\* invoked, the call in progress), not another worker, not the dictionary.
C16_TaskPrivateCopy ==
  [][/\ \A id \in DOMAIN tasks' \ DOMAIN tasks :
          /\ id = lastCall'.n
          /\ IF tasks'[id].kind = "CheckSpelling"
             THEN /\ IsString(lastCall'.info[1])
                  /\ tasks'[id].text = lastCall'.info[1].v \o <<NUL>>
             ELSE tasks'[id].word = Utf8Value(lastCall'.info[1])
     /\ \A id \in DOMAIN tasks \cap DOMAIN tasks' :
          Request(tasks'[id]) = Request(tasks[id])
     /\ ExecuteStep =>
          /\ UNCHANGED <<referenced, dictData, calls, dict, handed, impl>>
          /\ lastCall' = [lastCall EXCEPT !.raced = lastCall'.raced]
          /\ DOMAIN tasks' = DOMAIN tasks
          /\ \A id \in DOMAIN tasks :
                (id \notin running \/ id \in running') =>
                  Stored(tasks'[id]) = Stored(tasks[id])
    ]_vars

\* A worker holding "a b" has left Execute() with its two ranges while the
\* JavaScript thread went on to a later call.
C16_Witness ==
  \E id \in DOMAIN tasks :
    /\ id < lastCall.n
    /\ tasks[id].text = <<97, SPACE, 98, NUL>>
    /\ Len(tasks[id].misspelled_ranges) = 2
    /\ \E i \in DOMAIN done : done[i] = id

\* C17: getAvailableDictionaries hands the engine the path it was called
\* with when there is one, and "." only when there is none.
C17_PathArgumentIsPassed ==
  lastCall.op = "getAvailableDictionaries" =>
    lastCall.passed = IF Len(lastCall.info) > 0
                      THEN Utf8Value(lastCall.info[1])
                      ELSE <<46>>

\* An async call rejected at the call boundary with "Bad argument".
RejectedAsync(c) == c.op \in AsyncOps /\ c.outcome = "Bad argument"

\* The arguments the async methods reject: none at all, or a first argument
\* of checkSpellingAsync that is no string.
RejectedAsyncArgs(c) ==
  \/ Len(c.info) = 0
  \/ c.op = "checkSpellingAsync" /\ ~IsString(c.info[1])

\* C18: an async call is rejected with "Bad argument" exactly when it has no
\* argument or, for checkSpellingAsync, a first argument that is no string;
\* a rejected call changes nothing (no worker, no queue entry, no engine
\* call, no callback invoked), and since callbacks are only invoked for
\* workers, none is ever invoked for it.
C18_RejectedAsyncDoesNothing ==
  /\ [](lastCall.op \in AsyncOps =>
          /\ RejectedAsync(lastCall) <=> RejectedAsyncArgs(lastCall)
          /\ RejectedAsync(lastCall) =>
                /\ lastCall.n \notin DOMAIN tasks
                /\ Invocations(lastCall.n) = 0
                /\ \A i \in DOMAIN queue : queue[i] # lastCall.n
                /\ \A i \in DOMAIN done : done[i] # lastCall.n
                /\ lastCall.n \notin running)
  /\ [][/\ (lastCall'.n = lastCall.n + 1 /\ RejectedAsync(lastCall')) =>
            UNCHANGED <<referenced, impl, dictData, dict, handed, tasks,
                        queue, running, done, calls, crashed>>
        /\ \A id \in Ids : Invoked(id) => id \in DOMAIN tasks
        /\ \A id \in DOMAIN tasks' \ DOMAIN tasks :
             id = lastCall'.n /\ ~RejectedAsync(lastCall')
       ]_vars

\* checkSpellingAsync(7, fn) was rejected after an earlier worker was
\* completed, and nothing is pending.
C18_Witness ==
  /\ RejectedAsync(lastCall)
  /\ Len(lastCall.info) = 2
  /\ IsFunction(lastCall.info[2])
  /\ calls # <<>>
  /\ Quiescent

\* The arguments setDictionary rejects: none at all, or a second argument
\* that is no Buffer.
RejectedSetDictionaryArgs(c) ==
  \/ Len(c.info) = 0
  \/ Len(c.info) > 1 /\ ~HasInstance(c.info[2])

\* C19: a setDictionary call with no argument or with a second argument that
\* is no Buffer throws and leaves the object as it was: dictData retains what
\* it retained before, and the engine gets neither SetDictionary nor
\* SetDictionaryToContents (the JavaScript thread enters no engine call, the
\* dictionary and the buffers handed to the engine are unchanged).
C19_RejectedSetDictionaryChangesNothing ==
  [][(/\ lastCall'.n = lastCall.n + 1
      /\ lastCall'.op = "setDictionary"
      /\ RejectedSetDictionaryArgs(lastCall')) =>
        /\ Threw(lastCall')
        /\ lastCall'.passed = <<>>
        /\ UNCHANGED <<dictData, dict, handed, impl, tasks>>
    ]_vars

\* setDictionary("a", 7) was rejected while a Buffer was retained.
C19_Witness ==
  /\ lastCall.op = "setDictionary"
  /\ Len(lastCall.info) > 1
  /\ Threw(lastCall)
  /\ dictData = BufA
  /\ handed = {BufA}

====
